---- MODULE Spec2Model ----
(***************************************************************************)
(* A model of the `stash` crate (src/src/lib.rs): an encrypted file vault  *)
(* kept in $HOME, with per-file secrets held in a session keyring and in a *)
(* sled database, and an archive mode that collapses the vault into one    *)
(* encrypted tarball named `contents`.                                     *)
(*                                                                         *)
(* Paths are sequences of components (<<"d", "a">> is "d/a"), so that      *)
(* Path::file_name and PathBuf::join are computed, not assumed.  A file's  *)
(* bytes are a term: Plain(p) is the plaintext that originally lived at    *)
(* source path p, Enc(s, c) is the AES-256-GCM ciphertext of c under       *)
(* secret s, and Tar(m) is a tarball whose members are the function m.     *)
(***************************************************************************)
EXTENDS Integers, Sequences, FiniteSets, TLC

\* Number of calls of add, grab, delete, archive and unpack in one behaviour.
MaxOps == 4

\* Longest file, in bytes, that the in-place transform is run on.
MaxLen == 2

\* Longest stored blob, in bytes, that a Secret is built from.
MaxBlobLen == 46

VARIABLES files, cwd, db, keyring, is_archived, nsecrets, nops, result, clean,
          pre_archive, fault, disk, removed

vars == <<files, cwd, db, keyring, is_archived, nsecrets, nops, result, clean,
          pre_archive, fault, disk, removed>>

----------------------------------------------------------------------------
\* Names and paths

\* File names that can occur in the stash directory.
Names == {"a", ".h", "contents"}

\* Source paths, relative to the caller's current directory.
SrcPaths == {<<"a">>, <<"d", "a">>, <<".h">>, <<"contents">>}

\* A directory in the caller's current directory.
Dirs == {<<"d">>}

\* Every file argument of grab and delete, and every description of a secret.
Descs == SrcPaths \cup {<<".db">>}

\* The `contents` path component of Stash::new.
Contents == "contents"

\* Names the shell glob `./*` does not match (they begin with a dot).
Hidden(n) == n \in {".h", ".db"}

\* Path::file_name: the last component of a path.
file_name(p) == p[Len(p)]

----------------------------------------------------------------------------
\* File contents

Absent == <<"absent">>
Dir == <<"dir">>
Plain(p) == <<"plain", p>>
Enc(s, c) == <<"enc", s, c>>
Tar(m) == <<"tar", m>>
Kind(c) == c[1]

NoSecret == 0

\* A build whose encrypt leaves the file's bytes as they are.
encrypt_skipped(c, s) == c

\* Stash::encrypt: the file's bytes become their ciphertext under secret s.
encrypt(c, s) == Enc(s, c)

\* Stash::decrypt: the AEAD tag verifies only for ciphertext made with the
\* same secret; on failure the function returns before it writes anything.
decrypt(c, s) ==
  IF Kind(c) = "enc" /\ c[2] = s
    THEN [ok |-> TRUE, out |-> c[3]]
    ELSE [ok |-> FALSE, out |-> c]

\* self.path.join(file): the file of the stash directory a string names.
\* The stash directory has no subdirectory besides `.db`, the directory sled
\* keeps the database in, which Stash::new creates on every open.
stash_file(file) ==
  IF Len(file) = 1 /\ file[1] \in Names THEN files[file[1]]
  ELSE IF file = <<".db">> THEN Dir
  ELSE Absent

\* A build whose Secret::new returns the key and nonce of the call before.
new_secret_reused == IF nsecrets = 0 THEN 1 ELSE nsecrets

\* Secret::new(): a secret no earlier call has returned.
new_secret == nsecrets + 1

----------------------------------------------------------------------------
\* Bookkeeping of the last call

Res(op, file, copy, res, content) ==
  [op |-> op, file |-> file, copy |-> copy, res |-> res, content |-> content]

NoSnapshot ==
  [valid |-> FALSE, files |-> [n \in Names |-> Absent],
   db |-> [d \in Descs |-> NoSecret], keyring |-> [d \in Descs |-> NoSecret]]

\* No step of the last call failed and the process did not die in it.
NoFault == [op |-> "none", step |-> 0, crash |-> FALSE]

\* The last successful call, an add after it apart, was no delete and no
\* moving grab.
NoPath == <<>>

\* No file is under the in-place transform.
NoDisk == [stage |-> "none"]

\* The call ends with r, leaves the given state behind and has met fault flt.
\* A behaviour has at most MaxOps calls, and the call that meets a fault is
\* its last: after it the stash is only opened again.
Leave(r, f, c, d, k, ia, ns, flt) ==
  /\ nops < MaxOps
  /\ fault = NoFault
  /\ nops' = nops + 1
  /\ result' = r
  /\ files' = f
  /\ cwd' = c
  /\ db' = d
  /\ keyring' = k
  /\ is_archived' = ia
  /\ nsecrets' = ns
  /\ clean' = (clean /\ r.res = "Ok")
  /\ pre_archive' =
       IF r.op = "archive" /\ r.res = "Ok"
         THEN [valid |-> TRUE, files |-> files, db |-> db, keyring |-> keyring]
         ELSE NoSnapshot
  /\ fault' = flt
  /\ removed' =
       IF r.res = "Ok" /\ (r.op = "delete" \/ (r.op = "grab" /\ ~r.copy)) THEN r.file
       ELSE IF r.res = "Ok" /\ r.op = "add" THEN removed
       ELSE NoPath
  /\ UNCHANGED disk

\* The call returns r and leaves the given state behind.
Return(r, f, c, d, k, ia, ns) == Leave(r, f, c, d, k, ia, ns, NoFault)

\* The call returns the error kind `res` and has changed nothing.
Fail(op, file, copy, res) ==
  Return(Res(op, file, copy, res, Absent), files, cwd, db, keyring, is_archived, nsecrets)

----------------------------------------------------------------------------
Init ==
  /\ files = [n \in Names |-> Absent]
  /\ cwd = [p \in Descs |-> IF p \in SrcPaths THEN Plain(p) ELSE Absent]
  /\ db = [d \in Descs |-> NoSecret]
  /\ keyring = [d \in Descs |-> NoSecret]
  /\ is_archived = FALSE
  /\ nsecrets = 0
  /\ nops = 0
  /\ result = Res("new", <<>>, FALSE, "Ok", Absent)
  /\ clean = TRUE
  /\ pre_archive = NoSnapshot
  /\ removed = NoPath
  /\ fault = NoFault
  /\ disk = NoDisk

\* Stash::new: a fresh process opens the stash; is_archived is recomputed.
new ==
  /\ is_archived' = (files[Contents] # Absent)
  /\ result' = Res("new", <<>>, FALSE, "Ok", Absent)
  /\ UNCHANGED <<files, cwd, db, keyring, nsecrets, nops, clean, pre_archive, fault, disk, removed>>

\* The session keyring drops a key outside the program's control.
evict(d) ==
  /\ keyring[d] # NoSecret
  /\ keyring' = [keyring EXCEPT ![d] = NoSecret]
  /\ result' = Res("evict", d, FALSE, "Ok", Absent)
  /\ UNCHANGED <<files, cwd, db, is_archived, nsecrets, nops, clean, pre_archive, fault, disk, removed>>

----------------------------------------------------------------------------
\* Stash::add

\* A build of add that lacks the archive-mode check.
add_refused_never == FALSE

\* `else if self.is_archived`: add is refused in archive mode.
add_refused == is_archived

\* `description = src_path.to_string_lossy()`: the key the secret is stored under.
add_description(file) == file

\* A build of add that lacks the destination check.
dst_exists_never(file) == FALSE

\* `if dst_path.exists()`, with dst_path = self.path.join(file_name).
dst_exists(file) == stash_file(<<file_name(file)>>) # Absent

add(file, copy) ==
  IF add_refused
    THEN Fail("add", file, copy, "InvalidInput")
  ELSE IF file \in Dirs
    THEN Fail("add", file, copy, "InvalidInput")
  ELSE IF dst_exists(file)
    THEN Fail("add", file, copy, "AlreadyExists")
  ELSE IF cwd[file] = Absent
    THEN Fail("add", file, copy, "NotFound")      \* fs::copy / fs::rename fails
  ELSE
    LET secret == new_secret
        description == add_description(file)
        dst == file_name(file)
    IN Return(Res("add", file, copy, "Ok", cwd[file]),
              [files EXCEPT ![dst] = encrypt(cwd[file], secret)],
              IF copy THEN cwd ELSE [cwd EXCEPT ![file] = Absent],
              [db EXCEPT ![description] = secret],
              [keyring EXCEPT ![description] = secret],
              is_archived,
              secret)

----------------------------------------------------------------------------
\* Stash::grab

\* A build of grab that lacks the archive-mode check.
grab_refused_never(file, copy) == FALSE

\* `else if self.is_archived && !copy && file != "contents"`
grab_refused(file, copy) == is_archived /\ ~copy /\ file # <<Contents>>

\* A build of grab that never invalidates the key it found.
grab_keyring_kept(file, copy) == keyring

\* The keyring after the lookup: a key that was found is invalidated when
\* the file is moved out.
grab_keyring(file, copy) ==
  IF keyring[file] # NoSecret /\ ~copy
    THEN [keyring EXCEPT ![file] = NoSecret]
    ELSE keyring

\* A build of the lookup that falls back to a fixed secret instead of
\* reporting that none was found.
lookup_or_default(file) ==
  IF keyring[file] # NoSecret THEN keyring[file]
  ELSE IF db[file] # NoSecret THEN db[file]
  ELSE 1

\* A build of the lookup without the database fallback.
lookup_keyring_only(file) == keyring[file]

\* A build of the lookup that asks the database before the keyring.
lookup_db_first(file) == IF db[file] # NoSecret THEN db[file] ELSE keyring[file]

\* The secret the lookup yields: the keyring's, else the database's.
lookup(file) == IF keyring[file] # NoSecret THEN keyring[file] ELSE db[file]

\* The stash file after a successful grab: a copy leaves the file that
\* decrypt rewrote in place, a move renames it away.
grab_left_behind(plaintext, copy) == IF copy THEN plaintext ELSE Absent

\* A build of grab that never leaves archive mode.
grab_is_archived_kept(file, copy) == is_archived

\* `if !copy && file == "contents" { self.is_archived = false; }`
grab_is_archived(file, copy) ==
  IF ~copy /\ file = <<Contents>> THEN FALSE ELSE is_archived

\* The causes for which Stash::decrypt returns an error.
DecryptCauses == {"open", "read", "tag", "seek", "write", "set_len"}

\* The ErrorKind a caller of grab or unpack sees when Stash::decrypt fails:
\* decrypt builds every one of its errors with ErrorKind::Other, and the
\* map_err of the caller builds an ErrorKind::Other again.
decrypt_failure(cause) == "Other"

grab(file, copy) ==
  IF grab_refused(file, copy)
    THEN Fail("grab", file, copy, "InvalidInput")
  ELSE IF cwd[file] # Absent
    THEN Fail("grab", file, copy, "AlreadyExists")
  ELSE IF lookup(file) = NoSecret
    THEN Fail("grab", file, copy, "NotFound")
  ELSE
    LET secret == lookup(file)
        k == grab_keyring(file, copy)
        dec == decrypt(stash_file(file), secret)
    IN IF stash_file(file) \in {Absent, Dir}
         THEN Return(Res("grab", file, copy, decrypt_failure("open"), Absent),
                     files, cwd, db, k, is_archived, nsecrets)
       ELSE IF ~dec.ok
         THEN Return(Res("grab", file, copy, decrypt_failure("tag"), Absent),
                     files, cwd, db, k, is_archived, nsecrets)
       ELSE Return(Res("grab", file, copy, "Ok", dec.out),
                     [files EXCEPT ![file[1]] = grab_left_behind(dec.out, copy)],
                     [cwd EXCEPT ![file] = dec.out],
                     IF copy THEN db ELSE [db EXCEPT ![file] = NoSecret],
                     k,
                     grab_is_archived(file, copy),
                     nsecrets)

----------------------------------------------------------------------------
\* Stash::delete

\* `else if self.is_archived && file != "contents"`
delete_refused(file) == is_archived /\ file # <<Contents>>

\* A build of delete that lacks the program-file check.
program_file_none(file) == FALSE

\* `else if file == ".db" || file == ".secret"`
program_file(file) == file = <<".db">> \/ file = <<".secret">>

\* A build of delete that leaves the cached key alone.
delete_keyring_kept(file) == keyring

\* `if let Ok(key) = self.keyring.search(file) { key.invalidate() }`
delete_keyring(file) == [keyring EXCEPT ![file] = NoSecret]

delete(file) ==
  IF delete_refused(file)
    THEN Fail("delete", file, FALSE, "InvalidInput")
  ELSE IF program_file(file)
    THEN Fail("delete", file, FALSE, "InvalidInput")
  ELSE IF stash_file(file) = Absent
    THEN Fail("delete", file, FALSE, "InvalidInput")
  ELSE IF stash_file(file) = Dir
    THEN Fail("delete", file, FALSE, "Other")        \* fs::remove_file on a directory
  ELSE
    Return(Res("delete", file, FALSE, "Ok", Absent),
           [files EXCEPT ![file[1]] = Absent],
           cwd,
           [db EXCEPT ![file] = NoSecret],
           delete_keyring(file),
           IF file = <<Contents>> THEN FALSE ELSE is_archived,
           nsecrets)

----------------------------------------------------------------------------
\* Stash::archive

\* A build of archive that lacks the already-archived check.
archive_refused_never == FALSE

\* `else if self.is_archived`: a second archive is refused.
archive_refused == is_archived

\* `else if self.db.is_empty()`
db_is_empty == \A d \in Descs : db[d] = NoSecret

\* The names the shell expands `./*` to in the stash directory.
glob == {n \in Names : files[n] # Absent /\ ~Hidden(n)}

\* create_tarball: `cd && tar czf contents --remove-files ./*` (GNU tar).
\*  - The glob matches nothing: tar is handed the literal `./*`, exits with
\*    status 2 and leaves the empty archive it had already opened.
\*  - The glob matches `contents` itself: tar archives the files, then
\*    removes every member including its own output, and exits with 0.
\*  - Otherwise the matched files are packed and removed.
create_tarball ==
  IF glob = {}
    THEN [ok |-> FALSE,
          files |-> [files EXCEPT ![Contents] = Tar([n \in {} |-> Absent])]]
  ELSE IF Contents \in glob
    THEN [ok |-> TRUE,
          files |-> [n \in Names |-> IF n \in glob THEN Absent ELSE files[n]]]
  ELSE [ok |-> TRUE,
        files |-> [n \in Names |->
                     IF n = Contents THEN Tar([m \in glob |-> files[m]])
                     ELSE IF n \in glob THEN Absent
                     ELSE files[n]]]

archive ==
  IF archive_refused
    THEN Fail("archive", <<>>, FALSE, "InvalidInput")
  ELSE IF db_is_empty
    THEN Fail("archive", <<>>, FALSE, "InvalidInput")
  ELSE
    LET tar == create_tarball
        description == <<Contents>>
    IN IF ~tar.ok \/ tar.files[Contents] = Absent     \* tar fails / encrypt cannot open
         THEN Return(Res("archive", <<>>, FALSE, "Other", Absent),
                     tar.files, cwd, db, keyring, is_archived, nsecrets)
         ELSE
           LET secret == new_secret
           IN Return(Res("archive", <<>>, FALSE, "Ok", Absent),
                     [tar.files EXCEPT ![Contents] = encrypt(tar.files[Contents], secret)],
                     cwd,
                     [db EXCEPT ![description] = secret],
                     [keyring EXCEPT ![description] = secret],
                     TRUE,
                     secret)

----------------------------------------------------------------------------
\* Stash::unpack

\* A build of unpack that lacks the no-archive check.
unpack_refused_never == FALSE

\* `else if !self.is_archived`
unpack_refused == ~is_archived

\* A build of extract_tarball whose shell does not change into the stash
\* directory: the members are written somewhere else.
extract_tarball_elsewhere(f) ==
  IF Kind(f[Contents]) = "tar"
    THEN [ok |-> TRUE, files |-> f]
    ELSE [ok |-> FALSE, files |-> f]

\* extract_tarball: `cd && tar xzf contents` writes every member into the
\* stash directory (over a file of the same name); it fails on a file that
\* is not a tarball.
extract_tarball(f) ==
  IF Kind(f[Contents]) = "tar"
    THEN [ok |-> TRUE,
          files |-> [n \in Names |->
                       IF n \in DOMAIN f[Contents][2] THEN f[Contents][2][n] ELSE f[n]]]
    ELSE [ok |-> FALSE, files |-> f]

\* A build of unpack that leaves the cached key of the container alone.
unpack_keyring_kept == keyring

\* `key.invalidate()` on the key keyring.search found for the container
\* (nothing to invalidate when the search found none).
unpack_keyring == [keyring EXCEPT ![<<Contents>>] = NoSecret]

\* A build of unpack that clears the database.
unpack_db_cleared == [d \in Descs |-> NoSecret]

\* `self.db.remove(description)` with the container's description.
unpack_db == [db EXCEPT ![<<Contents>>] = NoSecret]

unpack ==
  IF unpack_refused
    THEN Fail("unpack", <<>>, FALSE, "InvalidInput")
  ELSE IF lookup(<<Contents>>) = NoSecret
    THEN Fail("unpack", <<>>, FALSE, "NotFound")
  ELSE
    LET description == <<Contents>>
        secret == lookup(description)
        k == unpack_keyring
        dec == decrypt(files[Contents], secret)
        f1 == [files EXCEPT ![Contents] = dec.out]
        tar == extract_tarball(f1)
    IN IF files[Contents] = Absent
         THEN Return(Res("unpack", <<>>, FALSE, decrypt_failure("open"), Absent),
                     files, cwd, db, k, is_archived, nsecrets)
       ELSE IF ~dec.ok
         THEN Return(Res("unpack", <<>>, FALSE, decrypt_failure("tag"), Absent),
                     files, cwd, db, k, is_archived, nsecrets)
       ELSE IF ~tar.ok
         THEN Return(Res("unpack", <<>>, FALSE, "Other", Absent),
                     f1, cwd, db, k, is_archived, nsecrets)
       ELSE Return(Res("unpack", <<>>, FALSE, "Ok", Absent),
                   [tar.files EXCEPT ![Contents] = Absent],
                   cwd,
                   unpack_db,
                   k,
                   FALSE,
                   nsecrets)

----------------------------------------------------------------------------
Next ==
  \/ new
  \/ \E d \in Descs : evict(d)
  \/ \E file \in SrcPaths \cup Dirs, copy \in BOOLEAN : add(file, copy)
  \/ \E file \in Descs, copy \in BOOLEAN : grab(file, copy)
  \/ \E file \in Descs : delete(file)
  \/ archive
  \/ unpack

Spec == Init /\ [][Next]_vars

----------------------------------------------------------------------------
\* main (src/src/main.rs)

\* The subcommands of the command-line program that run a core operation.
Commands == {"add", "grab", "delete", "list", "archive", "unpack"}

\* The exit status of the process after the core operation of subcommand
\* cmd returned res.  The arms of delete, list, archive and unpack call
\* exit(1) on Err; the arms of add and grab print the error and fall out of
\* the match, so that main returns and the status is 0.
main_exit(cmd, res) ==
  IF res = "Ok" THEN 0
  ELSE IF cmd \in {"add", "grab"} THEN 0
  ELSE 1

----------------------------------------------------------------------------
\* Vocabulary of the properties

\* The last call was `op` and it returned Ok.
Succeeded(op) == result.op = op /\ result.res = "Ok"

\* The secret a lookup yields in keyring k and database d.
LookupIn(k, d, file) == IF k[file] # NoSecret THEN k[file] ELSE d[file]

\* The members packed in the container, whether it is encrypted or not.
Packed ==
  LET c == files[Contents]
  IN IF Kind(c) = "tar" THEN c[2]
     ELSE IF Kind(c) = "enc" /\ Kind(c[3]) = "tar" THEN c[3][2]
     ELSE [n \in {} |-> Absent]

\* The secrets under which an item held by the stash is encrypted.
HeldSecrets ==
  {files[n][2] : n \in {m \in Names : Kind(files[m]) = "enc"}}
    \cup {Packed[n][2] : n \in {m \in DOMAIN Packed : Kind(Packed[m]) = "enc"}}

\* Description d names an item held by the stash, or its secret encrypts one.
Held(d) ==
  \/ Len(d) = 1 /\ d[1] \in Names /\ files[d[1]] # Absent
  \/ Len(d) = 1 /\ d[1] \in DOMAIN Packed
  \/ db[d] \in HeldSecrets

----------------------------------------------------------------------------
\* C1: after any sequence of successful operations every file in the stash
\* directory is ciphertext under a secret that the database holds.
C1_NoPlaintextAtRest ==
  clean =>
    \A n \in Names :
      files[n] # Absent =>
        /\ Kind(files[n]) = "enc"
        /\ \E d \in Descs : db[d] = files[n][2]

\* C2: after any sequence of successful operations every encrypted file of
\* the stash directory has a database entry under its own name, the string
\* grab, delete and unpack look it up by.
C2_EntryUnderName ==
  clean =>
    \A n \in Names :
      Kind(files[n]) = "enc" => db[<<n>>] # NoSecret

\* C3: after any sequence of successful operations every database entry
\* belongs to an item the stash still holds: a loose file, the container or
\* a file packed in the container.
C3_NoOrphanedSecrets ==
  clean => \A d \in Descs : db[d] # NoSecret => Held(d)

\* C4: a successful add(file, copy) followed by grab(name, copy = false),
\* with name the file's name in the stash and no file of that name in the
\* current directory, succeeds: the plaintext is in the current directory,
\* the stash copy is gone and no entry for name is left in either tier.
C4_AddThenGrab ==
  [][\A p \in SrcPaths :
       LET name == <<file_name(p)>>
       IN (/\ Succeeded("add") /\ result.file = p
           /\ cwd[name] = Absent
           /\ result'.op = "grab" /\ result'.file = name /\ result'.copy = FALSE)
          => (/\ result'.res = "Ok"
              /\ cwd'[name] = result.content
              /\ files'[name[1]] = Absent
              /\ db'[name] = NoSecret
              /\ keyring'[name] = NoSecret)]_vars

\* C5: a successful unpack() that follows a successful archive() leaves
\* is_archived false and the stash directory exactly as it was before the
\* archive, and every file that grab could decrypt before the archive it
\* can decrypt afterwards, to the same plaintext.
C5_ArchiveUnpackRoundTrip ==
  [][(pre_archive.valid /\ result'.op = "unpack" /\ result'.res = "Ok")
       => (/\ ~is_archived'
           /\ files' = pre_archive.files
           /\ \A n \in Names :
                LET before == decrypt(pre_archive.files[n],
                                      LookupIn(pre_archive.keyring, pre_archive.db, <<n>>))
                    after == decrypt(files'[n], LookupIn(keyring', db', <<n>>))
                IN before.ok => (after.ok /\ after.out = before.out))]_vars

\* An unpack has just restored an archive that held a file which grab can
\* decrypt, next to a hidden file that stayed outside the container.
C5_Witness ==
  /\ Succeeded("unpack")
  /\ Kind(files[".h"]) = "enc"
  /\ decrypt(files["a"], LookupIn(keyring, db, <<"a">>)).ok

\* C6: after archive() succeeds is_archived is true and the container is
\* the only file of the stash directory (next to the database).
C6_OnlyContainerAfterArchive ==
  Succeeded("archive") =>
    /\ is_archived
    /\ \A n \in Names : files[n] # Absent <=> n = Contents

\* C7: whenever an operation has returned, is_archived equals the existence
\* of the container file.
C7_FlagMatchesContainer ==
  is_archived = (files[Contents] # Absent)

\* C8: a successful add on an Unarchived stash leaves it Unarchived for the
\* next open: no container file exists afterwards.
C8_AddKeepsUnarchived ==
  [][(/\ ~is_archived /\ files[Contents] = Absent
      /\ result'.op = "add" /\ result'.res = "Ok")
       => files'[Contents] = Absent]_vars

\* C9: add called while is_archived is true fails with InvalidInput and
\* changes neither the source, the stash directory, the database nor the
\* keyring.
C9_AddRefusedWhenArchived ==
  [][(is_archived /\ result'.op = "add")
       => (/\ result'.res = "InvalidInput"
           /\ UNCHANGED <<files, cwd, db, keyring, is_archived>>)]_vars

\* An add has just been refused on an archived stash.
C9_Witness ==
  /\ result.op = "add" /\ result.res = "InvalidInput"
  /\ is_archived
  /\ Kind(files[Contents]) = "enc"
  /\ result.file \in SrcPaths
  /\ cwd[result.file] # Absent

\* The stash is Archived: the process has just archived it, or has just
\* opened it with the container present.
ArchivedNow ==
  \/ Succeeded("archive")
  \/ result.op = "new" /\ files[Contents] # Absent

\* C10: archive() called right after a successful archive, or right after
\* an open that found the container, fails with InvalidInput and changes
\* neither the stash directory, the database nor the keyring.
C10_ArchiveRefusedWhenArchived ==
  [][(ArchivedNow /\ result'.op = "archive")
       => (/\ result'.res = "InvalidInput"
           /\ UNCHANGED <<files, cwd, db, keyring, is_archived>>)]_vars

\* A second archive has just been refused; the container is untouched.
C10_Witness ==
  /\ result.op = "archive" /\ result.res = "InvalidInput"
  /\ is_archived
  /\ Kind(files[Contents]) = "enc"

----------------------------------------------------------------------------
\* C11: unpack() called while is_archived is false fails with InvalidInput
\* before any secret lookup: the stash directory, the database and the
\* keyring are unchanged.
C11_UnpackRefusedWhenUnarchived ==
  [][(~is_archived /\ result'.op = "unpack")
       => (/\ result'.res = "InvalidInput"
           /\ UNCHANGED <<files, cwd, db, keyring, is_archived>>)]_vars

\* An unpack has just been refused on a stash that holds an encrypted file
\* whose key is still in the keyring.
C11_Witness ==
  /\ result.op = "unpack" /\ result.res = "InvalidInput"
  /\ ~is_archived
  /\ \E n \in Names : Kind(files[n]) = "enc"
  /\ \E d \in Descs : keyring[d] # NoSecret

\* The stash directory holds no file at all (the database aside).
NoItem == \A n \in Names : files[n] = Absent

\* C12: in every Unarchived state whose stash directory holds no item,
\* archive() fails with InvalidInput and creates no container file.
C12_NothingToArchive ==
  [][(~is_archived /\ NoItem /\ result'.op = "archive")
       => (/\ result'.res = "InvalidInput"
           /\ files'[Contents] = Absent)]_vars

\* C13: from every Archived state reached by successful operations unpack()
\* succeeds and leaves the stash Unarchived, and from every Unarchived state
\* so reached that holds at least one item archive() succeeds.
C13_CycleContinues ==
  [][/\ (clean /\ is_archived /\ result'.op = "unpack")
          => (result'.res = "Ok" /\ ~is_archived')
     /\ (clean /\ ~is_archived /\ ~NoItem /\ result'.op = "archive")
          => result'.res = "Ok"]_vars

----------------------------------------------------------------------------
\* The lookup of grab and unpack on tiers that disagree.  The stash holds
\* the file `a`, loose or packed in the container, and the keyring and the
\* database each hold any secret, or none, for `a` and for the container.

TierSecrets == {1, 2}

TierValues == TierSecrets \cup {NoSecret}

Tiers ==
  {[d \in Descs |-> IF d = <<"a">> THEN x ELSE IF d = <<Contents>> THEN y ELSE NoSecret] :
     x \in TierValues, y \in TierValues}

LooseStash(sa) ==
  [n \in Names |-> IF n = "a" THEN Enc(sa, Plain(<<"a">>)) ELSE Absent]

PackedStash(sa, sc) ==
  [n \in Names |->
     IF n = Contents THEN Enc(sc, Tar([m \in {"a"} |-> Enc(sa, Plain(<<"a">>))]))
     ELSE Absent]

InitLookup ==
  /\ files \in {LooseStash(sa) : sa \in TierSecrets}
                 \cup {PackedStash(sa, sc) : sa \in TierSecrets, sc \in TierSecrets}
  /\ is_archived = (files[Contents] # Absent)
  /\ keyring \in Tiers
  /\ db \in Tiers
  /\ cwd = [p \in Descs |-> Absent]
  /\ nsecrets = 2
  /\ nops = 0
  /\ result = Res("new", <<>>, FALSE, "Ok", Absent)
  /\ clean = TRUE
  /\ pre_archive = NoSnapshot
  /\ removed = NoPath
  /\ fault = NoFault
  /\ disk = NoDisk

NextLookup ==
  \/ \E file \in Descs, copy \in BOOLEAN : grab(file, copy)
  \/ unpack

SpecLookup == InitLookup /\ [][NextLookup]_vars

\* Both tiers hold a secret for f, and the two differ.
TiersDiffer(f) ==
  keyring[f] # NoSecret /\ db[f] # NoSecret /\ keyring[f] # db[f]

\* The step is a grab of f, or an unpack with f the container, that gets as
\* far as the lookup.
LooksUp(f) ==
  \/ /\ result'.op = "grab" /\ result'.file = f
     /\ ~(is_archived /\ ~result'.copy /\ f # <<Contents>>)
     /\ cwd[f] = Absent
  \/ result'.op = "unpack" /\ f = <<Contents>> /\ is_archived

\* C14: when the keyring and the database hold different secrets for a
\* description, grab and unpack decrypt with the keyring's: the call
\* succeeds exactly when the file is ciphertext under the keyring's secret.
C14_CachePrecedence ==
  [][\A f \in Descs :
       (TiersDiffer(f) /\ LooksUp(f))
         => (result'.res = "Ok" <=> decrypt(stash_file(f), keyring[f]).ok)]_vars

\* A grab with copy has just succeeded on tiers that still disagree.
C14_Witness ==
  /\ Succeeded("grab") /\ result.copy
  /\ TiersDiffer(result.file)
  /\ cwd[result.file] = Plain(<<"a">>)

----------------------------------------------------------------------------
\* The file f is ciphertext under s that the step's operation can use: grab
\* needs it to decrypt, unpack needs the plaintext to be a tarball as well.
Usable(f, s) ==
  LET dec == decrypt(stash_file(f), s)
  IN dec.ok /\ (result'.op = "unpack" => Kind(dec.out) = "tar")

\* C15: the keyring may lose any of its keys between two operations (the
\* evict action).  A grab or unpack that succeeds with a key from the
\* keyring finds the same secret in the database, so it succeeds alike once
\* the key is evicted; and a lookup that misses the keyring and hits the
\* database never fails with NotFound and succeeds whenever the database's
\* secret fits the file.
C15_EvictionHarmless ==
  [][\A f \in Descs :
       LooksUp(f) =>
         /\ (keyring[f] # NoSecret /\ result'.res = "Ok") => db[f] = keyring[f]
         /\ (keyring[f] = NoSecret /\ db[f] # NoSecret)
              => (/\ result'.res # "NotFound"
                  /\ Usable(f, db[f]) => result'.res = "Ok")]_vars

\* A copying grab has just succeeded although the keyring had lost the key.
C15_Witness ==
  /\ Succeeded("grab") /\ result.copy
  /\ keyring[result.file] = NoSecret
  /\ db[result.file] # NoSecret
  /\ Kind(cwd[result.file]) = "plain"

----------------------------------------------------------------------------
\* C16: a grab or unpack whose lookup finds the description in neither tier
\* fails with NotFound; no file is decrypted, moved or removed and neither
\* tier changes.
C16_SecretNotFound ==
  [][\A f \in Descs :
       (keyring[f] = NoSecret /\ db[f] = NoSecret /\ LooksUp(f))
         => (/\ result'.res = "NotFound"
             /\ UNCHANGED <<files, cwd, db, keyring, is_archived>>)]_vars

\* A grab has just failed with NotFound on a file that is in the stash.
C16_Witness ==
  /\ result.op = "grab" /\ result.res = "NotFound"
  /\ Kind(stash_file(result.file)) = "enc"
  /\ keyring[result.file] = NoSecret /\ db[result.file] = NoSecret

----------------------------------------------------------------------------
\* C17: a successful grab(file, copy = false) leaves no entry for file in
\* the database and none in the keyring; a successful grab(file, copy =
\* true) leaves both tiers as they were.
C17_GrabEntries ==
  [][(result'.op = "grab" /\ result'.res = "Ok")
       => IF result'.copy
            THEN db' = db /\ keyring' = keyring
            ELSE /\ db'[result'.file] = NoSecret
                 /\ keyring'[result'.file] = NoSecret
                 /\ \A d \in Descs \ {result'.file} :
                      db'[d] = db[d] /\ keyring'[d] = keyring[d]]_vars

\* A moving grab has just taken a file whose key was in both tiers.
C17_Witness ==
  /\ Succeeded("grab") /\ ~result.copy
  /\ Kind(cwd[result.file]) = "plain"
  /\ stash_file(result.file) = Absent
  /\ db[result.file] = NoSecret /\ keyring[result.file] = NoSecret

C19_DeleteStoreRefused ==
  [][(result'.op = "delete" /\ result'.file = <<".db">>)
       => (/\ result'.res = "InvalidInput"
           /\ UNCHANGED <<files, cwd, db, keyring, is_archived>>)]_vars

\* delete(".db") has just been refused on an Unarchived stash whose
\* database holds an entry.
C19_Witness ==
  /\ result.op = "delete" /\ result.file = <<".db">>
  /\ result.res = "InvalidInput"
  /\ ~is_archived
  /\ ~db_is_empty

\* C20: while is_archived is true, delete(file) and grab(file, copy = false)
\* for any file other than "contents" fail with InvalidInput and change
\* neither the stash directory nor either tier.
C20_ArchivedRefusals ==
  [][(/\ is_archived
      /\ result'.file # <<Contents>>
      /\ \/ result'.op = "delete"
         \/ result'.op = "grab" /\ ~result'.copy)
       => (/\ result'.res = "InvalidInput"
           /\ UNCHANGED <<files, cwd, db, keyring, is_archived>>)]_vars

\* A moving grab of a packed file has just been refused; its key is still
\* in the keyring.
C20_Witness ==
  /\ result.op = "grab" /\ ~result.copy /\ result.res = "InvalidInput"
  /\ is_archived
  /\ Kind(files[Contents]) = "enc"
  /\ keyring[result.file] # NoSecret

C22_NeverOverwrites ==
  [][LET f == result'.file
     IN /\ (result'.op = "add" /\ f \in SrcPaths /\ stash_file(<<file_name(f)>>) # Absent)
             => /\ UNCHANGED <<files, cwd, db, keyring>>
                /\ result'.res = IF is_archived THEN "InvalidInput" ELSE "AlreadyExists"
        /\ (result'.op = "grab" /\ cwd[f] # Absent)
             => /\ UNCHANGED <<files, cwd, db, keyring>>
                /\ result'.res = IF is_archived /\ ~result'.copy /\ f # <<Contents>>
                                   THEN "InvalidInput" ELSE "AlreadyExists"]_vars

\* add has just been refused for a source whose name an encrypted file of
\* the stash directory already has.
C22_Witness ==
  /\ result.op = "add" /\ result.res = "AlreadyExists"
  /\ result.file \in SrcPaths
  /\ Kind(cwd[result.file]) = "plain"
  /\ Kind(stash_file(<<file_name(result.file)>>)) = "enc"

\* C23: a successful add(file, copy) on a stash that is not in archive mode
\* leaves in the stash directory, under file's name, the ciphertext of the
\* source's bytes under a secret that the database and the keyring both hold
\* for that file; with copy = false the source is gone from its place, with
\* copy = true the source's bytes are as before.
C23_AddPostcondition ==
  [][(result'.op = "add" /\ result'.res = "Ok")
       => LET f == result'.file
              n == file_name(f)
          IN /\ ~is_archived
             /\ Kind(files'[n]) = "enc"
             /\ files'[n][3] = cwd[f]
             /\ files'[n][2] # NoSecret
             /\ db'[f] = files'[n][2]
             /\ keyring'[f] = files'[n][2]
             /\ cwd'[f] = IF result'.copy THEN cwd[f] ELSE Absent]_vars

\* A moving add has just put a file into the stash.
C23_Witness ==
  /\ Succeeded("add") /\ ~result.copy
  /\ cwd[result.file] = Absent
  /\ Kind(files[file_name(result.file)]) = "enc"
  /\ db[result.file] = files[file_name(result.file)][2]
  /\ keyring[result.file] = files[file_name(result.file)][2]

\* The encrypted items the stash holds: loose files and packed members.
EncryptedItems ==
  {<<"loose", n, files[n][2]>> : n \in {m \in Names : Kind(files[m]) = "enc"}}
    \cup {<<"packed", n, Packed[n][2]>> :
            n \in {m \in DOMAIN Packed : Kind(Packed[m]) = "enc"}}

\* The secrets some entry or some item of the stash holds.
KnownSecrets ==
  HeldSecrets \cup {db[d] : d \in Descs} \cup {keyring[d] : d \in Descs}

\* C27: no two encrypted items of the stash are encrypted under one secret,
\* and a successful add or archive encrypts its item under a secret that no
\* item and no entry held before, and leaves that secret under the item's
\* description in the database and in the keyring, whatever they held there.
C27_FreshSecrets ==
  [][/\ \A i, j \in EncryptedItems' : i[3] = j[3] => i = j
     /\ (result'.res = "Ok" /\ result'.op \in {"add", "archive"})
          => LET d == IF result'.op = "add" THEN result'.file ELSE <<Contents>>
                 n == file_name(d)
             IN /\ Kind(files'[n]) = "enc"
                /\ files'[n][2] \notin KnownSecrets
                /\ db'[d] = files'[n][2]
                /\ keyring'[d] = files'[n][2]]_vars

\* A second secret has just been stored: the stash holds one encrypted file
\* and both tiers hold, under its description, the second secret.
C27_Witness ==
  /\ Succeeded("add")
  /\ nsecrets = 2
  /\ files[file_name(result.file)] = Enc(2, Plain(result.file))
  /\ db[result.file] = 2 /\ keyring[result.file] = 2
  /\ \A d \in Descs \ {result.file} : db[d] = NoSecret

\* C26: after a core operation that returned an error, the command-line
\* program exits with a status other than 0.
C26_ExitStatus ==
  (result.op \in Commands /\ result.res # "Ok")
    => main_exit(result.op, result.res) # 0

\* The step is a grab of f, or an unpack with f the container, whose
\* decrypt reads the file and finds that the tag does not verify.
TagMismatch(f) ==
  /\ LooksUp(f)
  /\ lookup(f) # NoSecret
  /\ stash_file(f) \notin {Absent, Dir}
  /\ ~decrypt(stash_file(f), lookup(f)).ok

\* C30: the error kind grab and unpack return when the tag does not verify
\* is none of the kinds they return when decrypt fails to open, read, seek,
\* write or truncate the file.
C30_TagMismatchKind ==
  [][\A f \in Descs :
       TagMismatch(f)
         => result'.res \notin {decrypt_failure(c) : c \in DecryptCauses \ {"tag"}}]_vars

----------------------------------------------------------------------------
\* Stash::encrypt and Stash::decrypt on the bytes of one file
\*
\* A file is a sequence of bytes.  AES-256-GCM with the key and nonce of a
\* secret is taken by its contract: the ciphertext has the plaintext's
\* length, a tag follows it (one element here, 16 bytes in the crate), and
\* the tag verifies only for the secret and the ciphertext it was made for.

ByteMod == 2

Byte == 0 .. ByteMod - 1

CryptoSecrets == {1, 2}

\* All files of at most MaxLen bytes.
FileBytes == UNION {[1 .. n -> Byte] : n \in 0 .. MaxLen}

\* The i-th byte of the key stream of secret s.
keystream(s, i) == (s + i) % ByteMod

RECURSIVE code(_)
\* A number that identifies the byte sequence c.
code(c) == IF c = <<>> THEN 1 ELSE code(SubSeq(c, 1, Len(c) - 1)) * ByteMod + c[Len(c)]

\* The tag of ciphertext c under secret s, distinct for distinct (s, c) and
\* distinct from every byte.
tag(s, c) == ByteMod + code(c) * Cardinality(CryptoSecrets) + (s - 1)

\* cipher.encrypt_in_place(nonce, b"", &mut buffer)
encrypt_in_place(buffer, s) ==
  LET c == [i \in 1 .. Len(buffer) |-> (buffer[i] + keystream(s, i)) % ByteMod]
  IN Append(c, tag(s, c))

\* A cipher that accepts any tag.
tag_verifies_always(buffer, s) == TRUE

\* The check of the tag in cipher.decrypt_in_place.
tag_verifies(buffer, s) ==
  /\ Len(buffer) >= 1
  /\ buffer[Len(buffer)] = tag(s, SubSeq(buffer, 1, Len(buffer) - 1))

\* cipher.decrypt_in_place(nonce, b"", &mut buffer)
decrypt_in_place(buffer, s) ==
  IF tag_verifies(buffer, s)
    THEN [ok |-> TRUE,
          buffer |-> [i \in 1 .. Len(buffer) - 1 |->
                        (buffer[i] + ByteMod - keystream(s, i)) % ByteMod]]
    ELSE [ok |-> FALSE, buffer |-> buffer]

\* file.seek(SeekFrom::Start(0)); file.write_all(&buffer): the buffer
\* replaces the first bytes of the file, what lies behind it stays.
write_all(file, buffer) == buffer \o SubSeq(file, Len(buffer) + 1, Len(file))

\* A build that does not call set_len.
set_len_skipped(file, n) == file

\* file.set_len(n): cut the file, or extend it with zero bytes.
set_len(file, n) ==
  IF n <= Len(file) THEN SubSeq(file, 1, n)
  ELSE file \o [i \in 1 .. n - Len(file) |-> 0]

\* Stash::encrypt on a file with the given bytes.
encrypt_bytes(file, s) ==
  LET buffer == encrypt_in_place(file, s)
  IN set_len(write_all(file, buffer), Len(buffer))

\* Stash::decrypt on a file with the given bytes: on a failed tag check it
\* returns before the seek.
decrypt_bytes(file, s) ==
  LET r == decrypt_in_place(file, s)
  IN IF ~r.ok THEN [ok |-> FALSE, file |-> file]
     ELSE [ok |-> TRUE, file |-> set_len(write_all(file, r.buffer), Len(r.buffer))]

\* What another party may put in place of one element of the file.
AlteredValues == Byte \cup {tag(s, c) : s \in CryptoSecrets, c \in FileBytes}

InitCrypto ==
  /\ files = [n \in Names |-> Absent]
  /\ cwd = [p \in Descs |-> Absent]
  /\ db = [d \in Descs |-> NoSecret]
  /\ keyring = [d \in Descs |-> NoSecret]
  /\ is_archived = FALSE
  /\ nsecrets = 0
  /\ nops = 0
  /\ result = Res("new", <<>>, FALSE, "Ok", Absent)
  /\ clean = TRUE
  /\ pre_archive = NoSnapshot
  /\ removed = NoPath
  /\ fault = NoFault
  /\ disk \in {[stage |-> "plain", file |-> F, original |-> F, secret |-> S,
                altered |-> FALSE, before |-> F, with |-> S, ok |-> TRUE] :
                 F \in FileBytes, S \in CryptoSecrets}

OnlyDisk ==
  UNCHANGED <<files, cwd, db, keyring, is_archived, nsecrets, nops, result, clean,
              pre_archive, fault, removed>>

\* Stash::encrypt(path, secret)
encrypt_call ==
  /\ disk.stage = "plain"
  /\ disk' = [disk EXCEPT !.stage = "cipher",
                          !.file = encrypt_bytes(disk.file, disk.secret)]
  /\ OnlyDisk

\* One element of the encrypted file is replaced by another value.
alter(i, v) ==
  /\ disk.stage = "cipher" /\ ~disk.altered
  /\ i \in 1 .. Len(disk.file)
  /\ disk.file[i] # v
  /\ disk' = [disk EXCEPT !.altered = TRUE, !.file = [disk.file EXCEPT ![i] = v]]
  /\ OnlyDisk

\* The encrypted file loses its last element.
truncate ==
  /\ disk.stage = "cipher" /\ ~disk.altered
  /\ disk' = [disk EXCEPT !.altered = TRUE,
                          !.file = SubSeq(disk.file, 1, Len(disk.file) - 1)]
  /\ OnlyDisk

\* Stash::decrypt(path, secret) with secret s
decrypt_call(s) ==
  /\ disk.stage = "cipher"
  /\ LET r == decrypt_bytes(disk.file, s)
     IN disk' = [disk EXCEPT !.stage = "done", !.before = disk.file, !.with = s,
                             !.ok = r.ok, !.file = r.file]
  /\ OnlyDisk

NextCrypto ==
  \/ encrypt_call
  \/ \E i \in 1 .. MaxLen + 1, v \in AlteredValues : alter(i, v)
  \/ truncate
  \/ \E s \in CryptoSecrets : decrypt_call(s)

SpecCrypto == InitCrypto /\ [][NextCrypto]_vars

\* C28: a file encrypted in place with a secret and then decrypted in place
\* with the same secret holds its original bytes, and so has its original
\* length; the decryption returns Ok.
C28_RoundTrip ==
  (disk.stage = "done" /\ ~disk.altered /\ disk.with = disk.secret)
    => /\ disk.ok
       /\ disk.file = disk.original
       /\ Len(disk.file) = Len(disk.original)

\* A file of at least one byte has gone through encrypt and decrypt.
C28_Witness ==
  /\ disk.stage = "done" /\ ~disk.altered /\ disk.with = disk.secret
  /\ Len(disk.original) >= 1
  /\ Len(disk.before) = Len(disk.original) + 1
  /\ disk.file = disk.original

\* C29: decrypt, with the secret a file was encrypted with, of that file
\* after an element of it was replaced or cut off, and decrypt of the
\* unaltered file with another secret, return an error and leave the file's
\* bytes, and so its length, as they were before the call.
C29_TamperDetected ==
  (disk.stage = "done" /\ (disk.altered <=> disk.with = disk.secret))
    => /\ ~disk.ok
       /\ disk.file = disk.before
       /\ Len(disk.file) = Len(disk.before)

\* decrypt has just refused a file of which one ciphertext byte was replaced.
C29_Witness ==
  /\ disk.stage = "done" /\ disk.altered /\ disk.with = disk.secret
  /\ Len(disk.before) = Len(disk.original) + 1
  /\ \E i \in 1 .. Len(disk.original) :
       disk.before[i] # encrypt_bytes(disk.original, disk.secret)[i]
  /\ ~disk.ok
  /\ disk.file = disk.before

----------------------------------------------------------------------------
\* Calls in which a step fails, and calls in which the process dies
\*
\* The steps of an operation are its fallible calls, numbered in the order
\* of the source.  The state after the first c steps of a call is given for
\* calls that return Ok when nothing fails.  A step that fails has no
\* effect of its own.

\* add: 1 fs::copy or fs::rename, 2 encrypt, 3 db.insert, 4 keyring.add_key
add_runs(file, copy) ==
  ~add_refused /\ file \in SrcPaths /\ ~dst_exists(file) /\ cwd[file] # Absent

add_after(file, copy, c) ==
  LET secret == new_secret
      dst == file_name(file)
      bytes == IF c >= 2 THEN encrypt(cwd[file], secret) ELSE cwd[file]
  IN [files |-> IF c >= 1 THEN [files EXCEPT ![dst] = bytes] ELSE files,
      cwd |-> IF c >= 1 /\ ~copy THEN [cwd EXCEPT ![file] = Absent] ELSE cwd,
      db |-> IF c >= 3 THEN [db EXCEPT ![add_description(file)] = secret] ELSE db,
      keyring |-> IF c >= 4 THEN [keyring EXCEPT ![add_description(file)] = secret]
                  ELSE keyring]

\* grab: 1 keyring.search, 2 key.read_to_vec and key.invalidate, or db.get,
\* 3 decrypt, 4 fs::copy or fs::rename, 5 db.remove
grab_runs(file, copy) ==
  /\ ~grab_refused(file, copy) /\ cwd[file] = Absent /\ lookup(file) # NoSecret
  /\ stash_file(file) \notin {Absent, Dir}
  /\ decrypt(stash_file(file), lookup(file)).ok

grab_after(file, copy, c) ==
  LET plaintext == decrypt(stash_file(file), lookup(file)).out
  IN [files |-> IF c >= 4 THEN [files EXCEPT ![file[1]] = grab_left_behind(plaintext, copy)]
                ELSE IF c >= 3 THEN [files EXCEPT ![file[1]] = plaintext]
                ELSE files,
      cwd |-> IF c >= 4 THEN [cwd EXCEPT ![file] = plaintext] ELSE cwd,
      db |-> IF c >= 5 /\ ~copy THEN [db EXCEPT ![file] = NoSecret] ELSE db,
      keyring |-> IF c >= 2 THEN grab_keyring(file, copy) ELSE keyring]

\* delete: 1 fs::remove_file, 2 db.remove, 3 keyring.search, 4 key.invalidate
delete_runs(file) ==
  ~delete_refused(file) /\ ~program_file(file) /\ stash_file(file) \notin {Absent, Dir}

delete_after(file, c) ==
  [files |-> IF c >= 1 THEN [files EXCEPT ![file[1]] = Absent] ELSE files,
   cwd |-> cwd,
   db |-> IF c >= 2 THEN [db EXCEPT ![file] = NoSecret] ELSE db,
   keyring |-> IF c >= 4 THEN delete_keyring(file) ELSE keyring]

\* archive: 1 create_tarball, 2 encrypt, 3 db.insert, 4 keyring.add_key
archive_runs ==
  /\ ~archive_refused /\ ~db_is_empty
  /\ create_tarball.ok /\ create_tarball.files[Contents] # Absent

archive_after(c) ==
  LET secret == new_secret
      tar == create_tarball
  IN [files |-> IF c >= 2
                  THEN [tar.files EXCEPT ![Contents] = encrypt(tar.files[Contents], secret)]
                ELSE IF c >= 1 THEN tar.files
                ELSE files,
      cwd |-> cwd,
      db |-> IF c >= 3 THEN [db EXCEPT ![<<Contents>>] = secret] ELSE db,
      keyring |-> IF c >= 4 THEN [keyring EXCEPT ![<<Contents>>] = secret] ELSE keyring]

\* unpack: 1 keyring.search, 2 key.read_to_vec and key.invalidate, or
\* db.get, 3 decrypt, 4 extract_tarball, 5 fs::remove_file, 6 db.remove
unpack_decrypted ==
  [files EXCEPT ![Contents] = decrypt(files[Contents], lookup(<<Contents>>)).out]

unpack_runs ==
  /\ ~unpack_refused /\ lookup(<<Contents>>) # NoSecret
  /\ files[Contents] # Absent
  /\ decrypt(files[Contents], lookup(<<Contents>>)).ok
  /\ extract_tarball(unpack_decrypted).ok

unpack_after(c) ==
  LET extracted == extract_tarball(unpack_decrypted).files
  IN [files |-> IF c >= 5 THEN [extracted EXCEPT ![Contents] = Absent]
                ELSE IF c >= 4 THEN extracted
                ELSE IF c >= 3 THEN unpack_decrypted
                ELSE files,
      cwd |-> cwd,
      db |-> IF c >= 6 THEN [db EXCEPT ![<<Contents>>] = NoSecret] ELSE db,
      keyring |-> IF c >= 2 THEN [keyring EXCEPT ![<<Contents>>] = NoSecret]
                  ELSE keyring]

\* The number of steps of each operation.
Steps == [add |-> 4, grab |-> 5, delete |-> 4, archive |-> 4, unpack |-> 6]

\* The call of op returns Ok when nothing fails.
runs(op, file, copy) ==
  CASE op = "add" -> add_runs(file, copy)
    [] op = "grab" -> grab_runs(file, copy)
    [] op = "delete" -> delete_runs(file)
    [] op = "archive" -> archive_runs
    [] op = "unpack" -> unpack_runs

\* The state after the first c steps of the call.
after(op, file, copy, c) ==
  CASE op = "add" -> add_after(file, copy, c)
    [] op = "grab" -> grab_after(file, copy, c)
    [] op = "delete" -> delete_after(file, c)
    [] op = "archive" -> archive_after(c)
    [] op = "unpack" -> unpack_after(c)

\* Secret::new() is called before the first step of add and of archive.
secrets_after(op) == IF op \in {"add", "archive"} THEN new_secret ELSE nsecrets

\* The arguments a call of op can have.
Args(op) ==
  CASE op = "add" -> {<<file, copy>> : file \in SrcPaths, copy \in BOOLEAN}
    [] op = "grab" -> {<<file, copy>> : file \in Descs, copy \in BOOLEAN}
    [] op = "delete" -> {<<file, FALSE>> : file \in Descs}
    [] op \in {"archive", "unpack"} -> {<<(<<>>), FALSE>>}

\* Step k is executed by the call: db.remove of grab is in the branch of a
\* move, key.invalidate of delete in the branch of a key that was found.
executes(op, file, copy, k) ==
  CASE op = "grab" /\ k = 5 -> ~copy
    [] op = "delete" /\ k = 4 -> keyring[file] # NoSecret
    [] OTHER -> TRUE

\* The calls of keyring.search are matched with `if let Ok(key)`: an Err
\* of any kind takes the branch of a key that is not cached.
swallowed(op, k) ==
  \/ op \in {"grab", "unpack"} /\ k = 1
  \/ op = "delete" /\ k = 3

\* The kind of the error the call returns when step k fails: the errors of
\* fs::copy, fs::rename and fs::remove_file pass through `?` as the
\* operating system made them, every other one is built with map_err.
step_error(op, k) ==
  IF (op = "add" /\ k = 1) \/ (op = "delete" /\ k = 1)
    THEN "PermissionDenied"
    ELSE "Other"

\* Step k of the call fails with an error that `?` returns.
step_fails(op, file, copy, k) ==
  /\ runs(op, file, copy)
  /\ executes(op, file, copy, k)
  /\ ~swallowed(op, k)
  /\ LET a == after(op, file, copy, k - 1)
     IN Leave(Res(op, file, copy, step_error(op, k), Absent),
              a.files, a.cwd, a.db, a.keyring, is_archived, secrets_after(op),
              [op |-> op, step |-> k, crash |-> FALSE])

\* keyring.search fails in delete: no key is invalidated and delete goes on.
delete_search_fails(file) ==
  /\ delete_runs(file)
  /\ LET a == delete_after(file, 2)
     IN Leave(Res("delete", file, FALSE, "Ok", Absent),
              a.files, a.cwd, a.db, a.keyring,
              IF file = <<Contents>> THEN FALSE ELSE is_archived, nsecrets,
              [op |-> "delete", step |-> 3, crash |-> FALSE])

\* keyring.search fails in grab: the secret is the database's, and the
\* keyring is not touched.
grab_search_fails(file, copy) ==
  /\ ~grab_refused(file, copy) /\ cwd[file] = Absent
  /\ LET flt == [op |-> "grab", step |-> 1, crash |-> FALSE]
         dec == decrypt(stash_file(file), db[file])
     IN IF db[file] = NoSecret
          THEN Leave(Res("grab", file, copy, "NotFound", Absent),
                     files, cwd, db, keyring, is_archived, nsecrets, flt)
        ELSE IF stash_file(file) \in {Absent, Dir} \/ ~dec.ok
          THEN Leave(Res("grab", file, copy, "Other", Absent),
                     files, cwd, db, keyring, is_archived, nsecrets, flt)
        ELSE Leave(Res("grab", file, copy, "Ok", dec.out),
                   [files EXCEPT ![file[1]] = grab_left_behind(dec.out, copy)],
                   [cwd EXCEPT ![file] = dec.out],
                   IF copy THEN db ELSE [db EXCEPT ![file] = NoSecret],
                   keyring, grab_is_archived(file, copy), nsecrets, flt)

\* keyring.search fails in unpack: likewise.
unpack_search_fails ==
  /\ ~unpack_refused
  /\ LET flt == [op |-> "unpack", step |-> 1, crash |-> FALSE]
         dec == decrypt(files[Contents], db[<<Contents>>])
         f1 == [files EXCEPT ![Contents] = dec.out]
         tar == extract_tarball(f1)
     IN IF db[<<Contents>>] = NoSecret
          THEN Leave(Res("unpack", <<>>, FALSE, "NotFound", Absent),
                     files, cwd, db, keyring, is_archived, nsecrets, flt)
        ELSE IF files[Contents] = Absent \/ ~dec.ok
          THEN Leave(Res("unpack", <<>>, FALSE, "Other", Absent),
                     files, cwd, db, keyring, is_archived, nsecrets, flt)
        ELSE IF ~tar.ok
          THEN Leave(Res("unpack", <<>>, FALSE, "Other", Absent),
                     f1, cwd, db, keyring, is_archived, nsecrets, flt)
        ELSE Leave(Res("unpack", <<>>, FALSE, "Ok", Absent),
                   [tar.files EXCEPT ![Contents] = Absent], cwd,
                   [db EXCEPT ![<<Contents>>] = NoSecret], keyring, FALSE, nsecrets, flt)

\* The process dies after step c of the call; the stash is opened again by
\* a new process, whose Stash::new recomputes is_archived.
crashes(op, file, copy, c) ==
  /\ runs(op, file, copy)
  /\ LET a == after(op, file, copy, c)
     IN Leave(Res(op, file, copy, "Crash", Absent),
              a.files, a.cwd, a.db, a.keyring, a.files[Contents] # Absent,
              secrets_after(op),
              [op |-> op, step |-> c, crash |-> TRUE])

NextFault ==
  \/ Next
  \/ \E op \in DOMAIN Steps : \E a \in Args(op) : \E k \in 1 .. Steps[op] :
       step_fails(op, a[1], a[2], k)
  \/ \E file \in Descs : delete_search_fails(file)
  \/ \E file \in Descs, copy \in BOOLEAN : grab_search_fails(file, copy)
  \/ unpack_search_fails
  \/ \E op \in DOMAIN Steps : \E a \in Args(op) : \E c \in 1 .. Steps[op] - 1 :
       crashes(op, a[1], a[2], c)

SpecFault == Init /\ [][NextFault]_vars

\* C24: when the stash is opened after the process died between two steps
\* of add, grab, delete, archive or unpack, the database holds the secret of
\* every encrypted file of the stash directory, and holds the container's
\* secret if the stash opens in archive mode.
C24_ConsistentAfterCrash ==
  fault.crash
    => /\ \A n \in Names :
            Kind(files[n]) = "enc" => \E d \in Descs : db[d] = files[n][2]
       /\ is_archived => db[<<Contents>>] # NoSecret

\* C25: a call in which a step fails does not return Ok, and leaves the
\* stash directory, the current directory and both tiers as the steps before
\* the failed one made them.
C25_FailureReturnedAtOnce ==
  [][(fault'.op # "none" /\ ~fault'.crash)
       => LET a == after(fault'.op, result'.file, result'.copy, fault'.step - 1)
          IN /\ result'.res # "Ok"
             /\ files' = a.files /\ cwd' = a.cwd
             /\ db' = a.db /\ keyring' = a.keyring]_vars

----------------------------------------------------------------------------
\* C33: a delete(file) that neither the archive-mode check nor the
\* program-file check refuses, for a file the stash directory does not hold,
\* fails with NotFound and changes no file of the stash directory and no
\* entry of either tier.
C33_DeleteAbsent ==
  [][(/\ result'.op = "delete"
      /\ ~delete_refused(result'.file)
      /\ ~program_file(result'.file)
      /\ stash_file(result'.file) = Absent)
       => (/\ result'.res = "NotFound"
           /\ UNCHANGED <<files, cwd, db, keyring, is_archived>>)]_vars

\* C36: after every call, every description the keyring holds a secret for
\* is in the database with the same secret.
C36_CacheMirrorsStore ==
  \A d \in Descs : keyring[d] # NoSecret => db[d] = keyring[d]

\* unpack has just returned Ok: the container's entry is in neither tier and
\* the keyring still mirrors the database's entry of an unpacked file.
C36_Witness ==
  /\ Succeeded("unpack")
  /\ keyring[<<Contents>>] = NoSecret /\ db[<<Contents>>] = NoSecret
  /\ \E d \in Descs : keyring[d] # NoSecret /\ db[d] = keyring[d]

\* C38: a grab or unpack that returns an error leaves the entries of the
\* keyring and of the database as they were before the call.
C38_FailureKeepsEntries ==
  [][(result'.op \in {"grab", "unpack"} /\ result'.res # "Ok")
       => (keyring' = keyring /\ db' = db)]_vars

\* C39: a successful archive and a successful unpack change, in either
\* tier, no entry but the container's, and no step taken in archive mode
\* changes a database entry other than the container's.
C39_PerFileEntriesKept ==
  [][/\ (result'.op \in {"archive", "unpack"} /\ result'.res = "Ok")
          => \A d \in Descs \ {<<Contents>>} :
               db'[d] = db[d] /\ keyring'[d] = keyring[d]
     /\ is_archived
          => \A d \in Descs \ {<<Contents>>} : db'[d] = db[d]]_vars

\* archive has just packed a file whose database entry still holds the
\* secret the packed file is encrypted under.
C39_Witness ==
  /\ Succeeded("archive")
  /\ is_archived
  /\ db[<<Contents>>] = files[Contents][2]
  /\ \E n \in DOMAIN Packed :
       Kind(Packed[n]) = "enc" /\ db[<<n>>] = Packed[n][2]

\* C40: when a successful delete(f) or moving grab(f) is followed by a
\* successful add of a file named f and no other call, a grab(f) into a
\* current directory that has no f returns Ok and yields the plaintext that
\* add took in.
C40_ReAddedName ==
  [][(/\ Succeeded("add")
      /\ removed = <<file_name(result.file)>>
      /\ result'.op = "grab" /\ result'.file = removed
      /\ ~is_archived
      /\ cwd[removed] = Absent)
       => (/\ result'.res = "Ok"
           /\ result'.content = result.content
           /\ cwd'[removed] = result.content)]_vars

----------------------------------------------------------------------------
\* Repeated grabs

\* The user removes from the current directory the copy that the grab
\* before has just put there (`rm file`); the program takes no part in it.
remove_copy(file) ==
  /\ Succeeded("grab") /\ result.copy /\ result.file = file
  /\ cwd[file] # Absent
  /\ cwd' = [cwd EXCEPT ![file] = Absent]
  /\ UNCHANGED <<files, db, keyring, is_archived, nsecrets, nops, result, clean,
                 pre_archive, fault, disk, removed>>

NextRepeat ==
  \/ Next
  \/ \E file \in Descs : remove_copy(file)

SpecRepeat == Init /\ [][NextRepeat]_vars

\* C37: after a successful grab(file, copy = true) and the removal of the
\* copy from the current directory, the stash still holds the file as
\* ciphertext, and a further grab of the file returns Ok and yields the
\* plaintext the first grab yielded.
C37_GrabCopyRepeatable ==
  [][(/\ Succeeded("grab") /\ result.copy
      /\ cwd[result.file] = Absent
      /\ result'.op = "grab" /\ result'.file = result.file)
       => (/\ Kind(stash_file(result.file)) = "enc"
           /\ result'.res = "Ok"
           /\ result'.content = result.content)]_vars

----------------------------------------------------------------------------
\* init_stash and copy_file (src/src/stash_lib.rs)
\*
\* A path string is a record: abs tells whether it starts with "/", comps
\* are its components.  The file system is the set of its directories and
\* the function from its regular files to their bytes, both on resolved
\* paths (sequences of components from the root).

PathStr(abs, comps) == [abs |-> abs, comps |-> comps]

\* The current directory of the process.
CurrentDir == <<"w">>

\* How the operating system resolves a path string.
resolve(p) == IF p.abs THEN p.comps ELSE CurrentDir \o p.comps

\* format!("{}/{}", path, label): the strings are pasted with a slash
\* between; a slash that label starts with doubles the pasted one, and the
\* result is absolute exactly when path is.
format_path(path, label) == PathStr(path.abs, path.comps \o label.comps)

parent(t) == SubSeq(t, 1, Len(t) - 1)

exists(fs, t) == t \in fs.dirs \/ t \in DOMAIN fs.regs

\* fs::create_dir(pathway)
create_dir(fs, pathway) ==
  LET t == resolve(pathway)
  IN IF Len(t) >= 1 /\ parent(t) \in fs.dirs /\ ~exists(fs, t)
       THEN [ok |-> TRUE, fs |-> [fs EXCEPT !.dirs = @ \cup {t}]]
       ELSE [ok |-> FALSE, fs |-> fs]

\* pub fn init_stash(label: &str, path: &str)
init_stash(fs, label, path) ==
  LET pathway == format_path(path, label)
  IN create_dir(fs, pathway)

\* A build of copy_file that joins the whole source path to the destination.
destination_file_path_whole(source, dir) == dir \o source.comps

\* destination_path.join(source_path.file_name().unwrap())
destination_file_path(source, dir) == dir \o <<file_name(source.comps)>>

\* pub fn copy_file(source_file_name: &str, destination_path: &str)
copy_file(fs, source_file_name, destination_path) ==
  LET source_path == resolve(source_file_name)
      dir == resolve(destination_path)
      t == destination_file_path(source_file_name, dir)
  IN IF source_path \notin DOMAIN fs.regs
       THEN [ok |-> FALSE, fs |-> fs]       \* File::open or read_to_end fails
     ELSE IF dir \notin fs.dirs
       THEN [ok |-> FALSE, fs |-> fs]       \* `if !destination_path.is_dir()`
     ELSE IF t \in fs.dirs
       THEN [ok |-> FALSE, fs |-> fs]       \* File::create on a directory
     ELSE [ok |-> TRUE,
           fs |-> [fs EXCEPT !.regs = [q \in DOMAIN fs.regs \cup {t} |->
                                         IF q = t THEN fs.regs[source_path]
                                         ELSE fs.regs[q]]]]

\* The path strings calls are made with: the directories /t and /u, the
\* labels s and n, the files /t/f and /t/n.
LibDirs == {PathStr(TRUE, <<"t">>), PathStr(TRUE, <<"u">>)}

LibLabels == {PathStr(FALSE, <<"s">>), PathStr(FALSE, <<"n">>)}

LibFiles == {PathStr(TRUE, <<"t", "f">>), PathStr(TRUE, <<"t", "n">>)}

LibBytes == {<<0>>, <<1, 0>>}

\* The file systems a call can find: /, /w and /t are directories; /u,
\* /w/s and /t/s may be; /t/s, /t/f and /u/f may be regular files.
LibFileSystems ==
  {[dirs |-> {<<>>, <<"w">>, <<"t">>} \cup D, regs |-> r] :
     D \in SUBSET {<<"u">>, <<"w", "s">>, <<"t", "s">>},
     r \in UNION {[R -> LibBytes] : R \in SUBSET {<<"t", "s">>, <<"t", "f">>, <<"u", "f">>}}}

InitLib ==
  /\ files = [n \in Names |-> Absent]
  /\ cwd = [p \in Descs |-> Absent]
  /\ db = [d \in Descs |-> NoSecret]
  /\ keyring = [d \in Descs |-> NoSecret]
  /\ is_archived = FALSE
  /\ nsecrets = 0
  /\ nops = 0
  /\ result = Res("new", <<>>, FALSE, "Ok", Absent)
  /\ clean = TRUE
  /\ pre_archive = NoSnapshot
  /\ fault = NoFault
  /\ removed = NoPath
  /\ disk \in {[stage |-> "fs", fs |-> f, call |-> "none",
                first |-> PathStr(FALSE, <<>>), second |-> PathStr(FALSE, <<>>),
                ok |-> TRUE, before |-> f] :
                 f \in {g \in LibFileSystems :
                          /\ \A q \in DOMAIN g.regs : q \notin g.dirs /\ parent(q) \in g.dirs}}

\* A call init_stash(first, second)
init_stash_call(first, second) ==
  /\ disk.stage = "fs"
  /\ LET r == init_stash(disk.fs, first, second)
     IN disk' = [disk EXCEPT !.stage = "called", !.fs = r.fs, !.call = "init_stash", !.first = first,
                             !.second = second, !.ok = r.ok, !.before = disk.fs]
  /\ OnlyDisk

\* A call copy_file(first, second)
copy_file_call(first, second) ==
  /\ disk.stage = "fs"
  /\ LET r == copy_file(disk.fs, first, second)
     IN disk' = [disk EXCEPT !.stage = "called", !.fs = r.fs, !.call = "copy_file", !.first = first,
                             !.second = second, !.ok = r.ok, !.before = disk.fs]
  /\ OnlyDisk

NextLib ==
  \/ \E first, second \in LibDirs \cup LibLabels : init_stash_call(first, second)
  \/ \E first \in LibFiles, second \in LibDirs \cup LibFiles : copy_file_call(first, second)

SpecLib == InitLib /\ [][NextLib]_vars

\* C34: init_stash(first, second) with first an existing directory and
\* second a one-component label creates the directory first/second and
\* nothing else, and returns Ok, when first/second does not exist; when it
\* exists, as a directory or as a regular file, the call fails and the file
\* system is as before.
C34_InitStash ==
  (/\ disk.stage = "called" /\ disk.call = "init_stash"
   /\ disk.first \in LibDirs /\ resolve(disk.first) \in disk.before.dirs
   /\ disk.second \in LibLabels)
    => LET t == resolve(disk.first) \o disk.second.comps
       IN IF exists(disk.before, t)
            THEN ~disk.ok /\ disk.fs = disk.before
            ELSE disk.ok /\ disk.fs = [disk.before EXCEPT !.dirs = @ \cup {t}]

\* C35: a copy_file(source, dir) that returns Ok leaves in dir a regular
\* file with the source's name and the source's bytes and changes no other
\* file, the source included; when the source is no regular file or dir is
\* no directory, the call fails and the file system is as before.
C35_CopyFile ==
  (disk.stage = "called" /\ disk.call = "copy_file")
    => LET src == resolve(disk.first)
           dir == resolve(disk.second)
           t == dir \o <<file_name(disk.first.comps)>>
       IN /\ disk.ok
               => /\ src \in DOMAIN disk.before.regs
                  /\ DOMAIN disk.fs.regs = DOMAIN disk.before.regs \cup {t}
                  /\ disk.fs.regs[t] = disk.before.regs[src]
                  /\ \A q \in DOMAIN disk.before.regs \ {t} :
                       disk.fs.regs[q] = disk.before.regs[q]
                  /\ disk.fs.regs[src] = disk.before.regs[src]
                  /\ disk.fs.dirs = disk.before.dirs
          /\ (src \notin DOMAIN disk.before.regs \/ dir \notin disk.before.dirs)
               => ~disk.ok /\ disk.fs = disk.before

\* copy_file has just copied /t/f into the directory /u, which had no f.
C35_Witness ==
  /\ disk.stage = "called" /\ disk.call = "copy_file" /\ disk.ok
  /\ <<"u", "f">> \notin DOMAIN disk.before.regs
  /\ <<"u", "f">> \in DOMAIN disk.fs.regs
  /\ disk.fs.regs[<<"u", "f">>] = disk.fs.regs[<<"t", "f">>]

----------------------------------------------------------------------------
\* Secret::new, Secret::join and Secret::from on bytes

\* Aes256Gcm::generate_key yields 32 bytes, generate_nonce 12 bytes.
KeyLen == 32

NonceLen == 12

\* The draws of the random generator the model follows.
Seeds == 1 .. 3

\* Secret::new() with the generator at draw k.
Secret_new(k) ==
  [key |-> [i \in 1 .. KeyLen |-> (i * k) % 256],
   nonce |-> [i \in 1 .. NonceLen |-> (i * k + 7) % 256]]

\* A build of join that puts the nonce first.
join_nonce_first(secret) == secret.nonce \o secret.key

\* Secret::join: the key followed by the nonce.
join(secret) == secret.key \o secret.nonce

\* Secret::from(secret: &[u8]): `secret[..32]` panics on a slice shorter
\* than 32 bytes; on any other the rest of the slice, whatever its length,
\* becomes the nonce.  The function returns Self, so it has no error to
\* return.
from(blob) ==
  IF Len(blob) < KeyLen
    THEN [outcome |-> "panic"]
    ELSE [outcome |-> "Secret",
          key |-> SubSeq(blob, 1, KeyLen),
          nonce |-> SubSeq(blob, KeyLen + 1, Len(blob))]

\* The blobs a lookup can find stored: any number of bytes up to MaxBlobLen.
Blobs == {[i \in 1 .. n |-> (i * k) % 256] : n \in 0 .. MaxBlobLen, k \in Seeds}

\* The two places grab and unpack take a blob from.
LookupPaths == {"keyring", "db"}

InitSecret ==
  /\ files = [n \in Names |-> Absent]
  /\ cwd = [p \in Descs |-> Absent]
  /\ db = [d \in Descs |-> NoSecret]
  /\ keyring = [d \in Descs |-> NoSecret]
  /\ is_archived = FALSE
  /\ nsecrets = 0
  /\ nops = 0
  /\ result = Res("new", <<>>, FALSE, "Ok", Absent)
  /\ clean = TRUE
  /\ pre_archive = NoSnapshot
  /\ fault = NoFault
  /\ removed = NoPath
  /\ disk \in {[stage |-> "generated", secret |-> Secret_new(k)] : k \in Seeds}
               \cup {[stage |-> "stored", blob |-> b, joined |-> FALSE] : b \in Blobs}

\* add and archive store secret.join()
join_call ==
  /\ disk.stage = "generated"
  /\ disk' = [stage |-> "stored", blob |-> join(disk.secret), joined |-> TRUE,
              secret |-> disk.secret]
  /\ OnlyDisk

\* grab and unpack build the Secret from the blob the keyring or the
\* database returned.
from_call(path) ==
  /\ disk.stage = "stored"
  /\ disk' = [disk EXCEPT !.stage = "built"] @@ [path |-> path, built |-> from(disk.blob)]
  /\ OnlyDisk

NextSecret ==
  \/ join_call
  \/ \E path \in LookupPaths : from_call(path)

SpecSecret == InitSecret /\ [][NextSecret]_vars

\* C31: Secret::from on a blob whose length is not 44 bytes ends with the
\* error CorruptSecret in the keyring path and in the database path: it
\* does not panic and yields no Secret.
C31_CorruptSecret ==
  (disk.stage = "built" /\ Len(disk.blob) # KeyLen + NonceLen)
    => disk.built.outcome = "CorruptSecret"

====
